---- MODULE Spec2Model ----
(***************************************************************************)
(* A model of qrhfz/json_parser: the byte-level Tokenizer                 *)
(* (src/src/tokenizer.rs) and the recursive-descent JsonParser            *)
(* (src/src/parser.rs) with its escape decoder and number converter.      *)
(*                                                                         *)
(* The source text is a sequence of bytes (0..255) that is valid UTF-8;   *)
(* decoded strings are sequences of code points.  Byte offsets are        *)
(* 0-based as in the code, sequences are 1-based as in TLA+, so the byte  *)
(* at offset i is s[i + 1].                                               *)
(***************************************************************************)
EXTENDS Integers, Sequences, FiniteSets, TLC

VARIABLES
    src,        \* Tokenizer.src / the text given to parse (escape: its argument s)
    tokenizer,  \* Tokenizer { start, current, line }
    token,      \* what the latest Tokenizer::next / advance / peek call returned
    buffer,     \* JsonParser.buffer
    stack,      \* the call stack of the recursive descent, innermost frame last
    ret,        \* the Result a callee has just returned to the frame below it
    result,     \* what parse (or escape, when called alone) returned
    consumed,   \* history: the tokens JsonParser::advance has returned, in order
    doc         \* the document the source text was serialized from, if any

vars == <<src, tokenizer, token, buffer, stack, ret, result, consumed, doc>>

----------------------------------------------------------------------------
(* Bytes the code names.                                                   *)

QUOTE == 34
PLUS == 43
COMMA == 44
MINUS == 45
DOT == 46
SLASH == 47
ZERO == 48
ONE == 49
NINE == 57
COLON == 58
UPPER_E == 69
LBRACKET == 91
BACKSLASH == 92
RBRACKET == 93
LOWER_E == 101
LOWER_F == 102
LOWER_N == 110
LOWER_T == 116
LBRACE == 123
RBRACE == 125
SPACE == 32
NEWLINE == 10
TAB == 9
CR == 13

KwTrue == <<116, 114, 117, 101>>
KwFalse == <<102, 97, 108, 115, 101>>
KwNull == <<110, 117, 108, 108>>

----------------------------------------------------------------------------
(* Token and Option<Token>.                                                *)

NoToken ==
    [type |-> "None", line |-> 0, index |-> 0, text |-> <<>>, message |-> ""]

Token(type, line, index) ==
    [type |-> type, line |-> line, index |-> index, text |-> <<>>, message |-> ""]

TextToken(type, line, index, text) ==
    [type |-> type, line |-> line, index |-> index, text |-> text, message |-> ""]

ErrorToken(line, index, message) ==
    [type |-> "Error", line |-> line, index |-> index, text |-> <<>>,
     message |-> message]

IsToken(t) == t.type \notin {"None", "NoCall", "Panic"}

----------------------------------------------------------------------------
(* Tokenizer helpers: each takes the source s and the cursor c.            *)

at_end(s, c) == c >= Len(s)

check_byte(s, c, byte) == ~at_end(s, c) /\ s[c + 1] = byte

(* is_space without the tab *)
is_space_no_tab(s, c) == ~at_end(s, c) /\ s[c + 1] \in {SPACE, NEWLINE, CR}

is_space(s, c) == ~at_end(s, c) /\ s[c + 1] \in {SPACE, NEWLINE, TAB, CR}

is_1to9(s, c) == ~at_end(s, c) /\ s[c + 1] >= ONE /\ s[c + 1] <= NINE

is_zero(s, c) == ~at_end(s, c) /\ s[c + 1] = ZERO

is_digit(s, c) == is_zero(s, c) \/ is_1to9(s, c)

(* str::is_char_boundary: offset 0, the length, or a byte that is no UTF-8 *)
(* continuation byte (0x80..0xBF).                                         *)
is_char_boundary(s, i) ==
    \/ i = 0
    \/ i = Len(s)
    \/ i < Len(s) /\ s[i + 1] \notin 128..191

(* check: "panic" stands for the abort of the slice &src[c..c+n] when c+n  *)
(* falls inside a multi-byte character.                                    *)
check(s, c, comparison) ==
    IF c + Len(comparison) > Len(s) THEN "false"
    ELSE IF ~is_char_boundary(s, c + Len(comparison)) THEN "panic"
    ELSE IF SubSeq(s, c + 1, c + Len(comparison)) = comparison THEN "true"
    ELSE "false"

(* while !at_end && is_digit { advance } *)
RECURSIVE skip_digits(_, _)
skip_digits(s, c) ==
    IF ~at_end(s, c) /\ is_digit(s, c) THEN skip_digits(s, c + 1) ELSE c

RECURSIVE skip_white_spaces(_, _, _)
skip_white_spaces(s, c, line) ==
    IF c < Len(s)
    THEN IF ~is_space(s, c)
         THEN [current |-> c, line |-> IF s[c + 1] = NEWLINE THEN line + 1 ELSE line]
         ELSE skip_white_spaces(s, c + 1,
                                IF s[c + 1] = NEWLINE THEN line + 1 ELSE line)
    ELSE [current |-> c, line |-> line]

(* number(): the integer part, from the cursor after the optional '-'.     *)
number_integer(s, c) ==
    IF is_zero(s, c) THEN c + 1
    ELSE IF is_1to9(s, c) THEN skip_digits(s, c + 1)
    ELSE c

(* a number() that leaves the fraction unread *)
number_fraction_unread(s, c) == c

number_fraction(s, c) ==
    IF check_byte(s, c, DOT) THEN skip_digits(s, c + 1) ELSE c

number_exponent(s, c) ==
    IF check_byte(s, c, UPPER_E) \/ check_byte(s, c, LOWER_E)
    THEN IF check_byte(s, c + 1, PLUS) \/ check_byte(s, c + 1, MINUS)
         THEN skip_digits(s, c + 2)
         ELSE skip_digits(s, c + 1)
    ELSE c

(* From the cursor after the integer part: the early return at the end of  *)
(* input, else the fraction and the exponent.                              *)
number_rest(s, c) ==
    IF at_end(s, c) THEN c ELSE number_exponent(s, number_fraction(s, c))

number_token(s, tz, end) ==
    [tz |-> [start |-> tz.current, current |-> end, line |-> tz.line],
     tok |-> TextToken("Number", tz.line, tz.current,
                       SubSeq(s, tz.current + 1, end)),
     panic |-> FALSE]

number(s, tz) ==
    number_token(s, tz,
        number_rest(s, number_integer(s,
            IF check_byte(s, tz.current, MINUS) THEN tz.current + 1
            ELSE tz.current)))

(* a scan that stops at the first quote, escaped or not *)
RECURSIVE string_scan_no_escape(_, _)
string_scan_no_escape(s, c) ==
    IF at_end(s, c) THEN [current |-> c, closed |-> FALSE]
    ELSE IF check_byte(s, c, QUOTE) THEN [current |-> c + 1, closed |-> TRUE]
    ELSE string_scan_no_escape(s, c + 1)

(* The loop of string(): the cursor after the scan and whether the closing *)
(* quote was found.                                                        *)
RECURSIVE string_scan(_, _)
string_scan(s, c) ==
    IF at_end(s, c) THEN [current |-> c, closed |-> FALSE]
    ELSE IF check_byte(s, c, QUOTE) THEN [current |-> c + 1, closed |-> TRUE]
    ELSE IF check_byte(s, c, BACKSLASH) THEN string_scan(s, c + 2)
    ELSE string_scan(s, c + 1)

string_token(s, tz, r) ==
    [tz |-> [start |-> tz.current, current |-> r.current, line |-> tz.line],
     tok |-> IF r.closed
             THEN TextToken("String", tz.line, tz.current,
                            SubSeq(s, tz.current + 1, r.current))
             ELSE ErrorToken(tz.line, tz.current, "unterminated string"),
     panic |-> FALSE]

string(s, tz) == string_token(s, tz, string_scan(s, tz.current + 1))

RECURSIVE unknown_scan(_, _)
unknown_scan(s, c) ==
    IF at_end(s, c) THEN c
    ELSE IF is_space(s, c) THEN c
    ELSE IF s[c + 1] \in {LBRACE, RBRACE, LBRACKET, RBRACKET, COMMA, COLON} THEN c
    ELSE unknown_scan(s, c + 1)

unknown_keyword(s, tz) ==
    [tz |-> [start |-> tz.current, current |-> unknown_scan(s, tz.current),
             line |-> tz.line],
     tok |-> ErrorToken(tz.line, tz.current, "unknown keyword"),
     panic |-> FALSE]

symbol(tz, type) ==
    [tz |-> [tz EXCEPT !.current = tz.current + 1],
     tok |-> Token(type, tz.line, tz.current),
     panic |-> FALSE]

keyword_token(s, tz, comparison, type, m) ==
    IF m = "panic" THEN [tz |-> tz, tok |-> NoToken, panic |-> TRUE]
    ELSE IF m = "true"
    THEN [tz |-> [tz EXCEPT !.current = tz.current + Len(comparison)],
          tok |-> Token(type, tz.line, tz.current),
          panic |-> FALSE]
    ELSE unknown_keyword(s, tz)

keyword(s, tz, comparison, type) ==
    keyword_token(s, tz, comparison, type, check(s, tz.current, comparison))

(* next() from the cursor that skip_white_spaces left.                     *)
next_token(s, tz) ==
    IF check_byte(s, tz.current, MINUS) \/ is_digit(s, tz.current)
    THEN number(s, tz)
    ELSE IF check_byte(s, tz.current, QUOTE) THEN string(s, tz)
    ELSE IF at_end(s, tz.current) THEN [tz |-> tz, tok |-> NoToken, panic |-> FALSE]
    ELSE CASE s[tz.current + 1] = LBRACE -> symbol(tz, "LeftCurlyBracket")
           [] s[tz.current + 1] = RBRACE -> symbol(tz, "RightCurlyBracket")
           [] s[tz.current + 1] = LBRACKET -> symbol(tz, "LeftSquareBracket")
           [] s[tz.current + 1] = RBRACKET -> symbol(tz, "RightSquareBracket")
           [] s[tz.current + 1] = COLON -> symbol(tz, "Colon")
           [] s[tz.current + 1] = COMMA -> symbol(tz, "Comma")
           [] s[tz.current + 1] = LOWER_T -> keyword(s, tz, KwTrue, "True")
           [] s[tz.current + 1] = LOWER_F -> keyword(s, tz, KwFalse, "False")
           [] s[tz.current + 1] = LOWER_N -> keyword(s, tz, KwNull, "Null")
           [] OTHER -> unknown_keyword(s, tz)

after_spaces(tz, w) == [tz EXCEPT !.current = w.current, !.line = w.line]

(* Tokenizer::next: the tokenizer after the call, the Option<Token> it     *)
(* returned, and whether it aborted instead of returning.                  *)
TokenizerNext(s, tz) ==
    next_token(s, after_spaces(tz, skip_white_spaces(s, tz.current, tz.line)))

NewTokenizer == [start |-> 0, current |-> 0, line |-> 1]

----------------------------------------------------------------------------
(* JsonNode, and Result<JsonNode, JsonError> / Result<String, &str>.       *)
(* A String holds code points, a Number the decimal value m * 10^e with m  *)
(* free of trailing zeros (zero is <<0, 0>>), which within the lengths     *)
(* modelled is equal exactly when the f64 values are; an Object is a       *)
(* function from decoded keys to nodes.                                    *)

JsonString(cs) == <<"String", cs>>
JsonNumber(v) == <<"Number", v>>
JsonBool(b) == <<"Bool", b>>
JsonNull == <<"Null">>
JsonArray(arr) == <<"Array", arr>>
JsonObject(obj) == <<"Object", obj>>

Ok(node) == [ok |-> TRUE, node |-> node, message |-> "", token |-> NoToken]

Err(message, tok) ==
    [ok |-> FALSE, node |-> JsonNull, message |-> message, token |-> tok]

----------------------------------------------------------------------------
(* The escape decoder.                                                     *)

LOWER_B == 98
LOWER_R == 114
LOWER_U == 117
FORM_FEED == 12

(* str::chars: the code points of UTF-8 text.                              *)
RECURSIVE chars(_)
chars(t) ==
    IF t = <<>> THEN <<>>
    ELSE IF t[1] < 128 THEN <<t[1]>> \o chars(Tail(t))
    ELSE IF t[1] < 224
    THEN <<(t[1] - 192) * 64 + (t[2] - 128)>> \o chars(SubSeq(t, 3, Len(t)))
    ELSE IF t[1] < 240
    THEN <<(t[1] - 224) * 4096 + (t[2] - 128) * 64 + (t[3] - 128)>>
         \o chars(SubSeq(t, 4, Len(t)))
    ELSE <<(t[1] - 240) * 262144 + (t[2] - 128) * 4096 + (t[3] - 128) * 64
           + (t[4] - 128)>> \o chars(SubSeq(t, 5, Len(t)))

(* char::to_digit(16); -1 is None.                                         *)
to_digit16(c) ==
    IF c >= 48 /\ c <= 57 THEN c - 48
    ELSE IF c >= 97 /\ c <= 102 THEN c - 87
    ELSE IF c >= 65 /\ c <= 70 THEN c - 55
    ELSE -1

RECURSIVE radix16_value(_, _)
radix16_value(ds, acc) ==
    IF ds = <<>> THEN acc
    ELSE radix16_value(Tail(ds), acc * 16 + to_digit16(Head(ds)))

all_hex(digits) == \A i \in 1..Len(digits) : to_digit16(digits[i]) # -1

(* u32::from_str_radix(hexs, 16); -1 is Err.  A leading '+' is taken as a  *)
(* sign; a '-' is not, the type being unsigned.                            *)
from_str_radix16(hexs) ==
    IF hexs = <<>> THEN -1
    ELSE IF Len(hexs) = 1 /\ hexs[1] \in {PLUS, MINUS} THEN -1
    ELSE IF hexs[1] = PLUS
    THEN IF all_hex(Tail(hexs)) THEN radix16_value(Tail(hexs), 0) ELSE -1
    ELSE IF all_hex(hexs) THEN radix16_value(hexs, 0) ELSE -1

(* char::from_u32(x) is Some. *)
is_scalar_value(x) == x >= 0 /\ x <= 1114111 /\ ~(x >= 55296 /\ x <= 57343)

StrOk(cs) == [ok |-> TRUE, val |-> cs, message |-> "", panic |-> FALSE]
StrErr(message) == [ok |-> FALSE, val |-> <<>>, message |-> message, panic |-> FALSE]
StrPanic == [ok |-> FALSE, val |-> <<>>, message |-> "unreachable", panic |-> TRUE]

(* String::pop left out *)
pop_nothing(escaped) == escaped

pop(escaped) ==
    IF escaped = <<>> THEN <<>> ELSE SubSeq(escaped, 1, Len(escaped) - 1)

unicode_char(x) ==
    IF x = -1 THEN [ok |-> FALSE, c |-> 0, message |-> "parse \\u error"]
    ELSE IF ~is_scalar_value(x)
    THEN [ok |-> FALSE, c |-> 0, message |-> "parse \\u error"]
    ELSE [ok |-> TRUE, c |-> x, message |-> ""]

(* The 'u' arm: cs[i] is the first of the four characters to read.         *)
unicode_escape(cs, i) ==
    IF i + 3 > Len(cs) THEN [ok |-> FALSE, c |-> 0, message |-> "unexpected eof"]
    ELSE unicode_char(from_str_radix16(SubSeq(cs, i, i + 3)))

(* The loop of escape(): cs[i] is the character chars.next() yields next.  *)
RECURSIVE escape_loop(_, _, _)
RECURSIVE escape_unicode(_, _, _, _)
escape_loop(cs, i, escaped) ==
    IF i > Len(cs) THEN StrErr("unexpected string end")
    ELSE IF cs[i] = QUOTE THEN StrOk(escaped)
    ELSE IF cs[i] # BACKSLASH THEN escape_loop(cs, i + 1, Append(escaped, cs[i]))
    ELSE IF i + 1 > Len(cs) THEN StrErr("invalid token")
    ELSE CASE cs[i + 1] = QUOTE -> escape_loop(cs, i + 2, Append(escaped, QUOTE))
           [] cs[i + 1] = BACKSLASH ->
                escape_loop(cs, i + 2, Append(escaped, BACKSLASH))
           [] cs[i + 1] = SLASH -> escape_loop(cs, i + 2, Append(escaped, SLASH))
           [] cs[i + 1] = LOWER_N -> escape_loop(cs, i + 2, Append(escaped, NEWLINE))
           [] cs[i + 1] = LOWER_B -> escape_loop(cs, i + 2, pop(escaped))
           [] cs[i + 1] = LOWER_F ->
                escape_loop(cs, i + 2, Append(escaped, FORM_FEED))
           [] cs[i + 1] = LOWER_R -> escape_loop(cs, i + 2, Append(escaped, CR))
           [] cs[i + 1] = LOWER_T -> escape_loop(cs, i + 2, Append(escaped, TAB))
           [] cs[i + 1] = LOWER_U ->
                escape_unicode(cs, i, escaped, unicode_escape(cs, i + 2))
           [] OTHER -> StrPanic

escape_unicode(cs, i, escaped, u) ==
    IF u.ok THEN escape_loop(cs, i + 6, Append(escaped, u.c))
    ELSE StrErr(u.message)

escape(s) == escape_loop(chars(s), 2, <<>>)

string_result(r) ==
    [panic |-> r.panic,
     res |-> IF r.ok THEN Ok(JsonString(r.val)) ELSE Err(r.message, NoToken)]

(* JsonParser::string *)
parse_string(s) == string_result(escape(s))

----------------------------------------------------------------------------
(* The number converter: s.parse::<f64>().unwrap().                        *)

is_ascii_digit(c) == c >= ZERO /\ c <= NINE

(* The 1-based position after the run of digits that starts at t[i].       *)
RECURSIVE digit_run(_, _)
digit_run(t, i) ==
    IF i <= Len(t) /\ is_ascii_digit(t[i]) THEN digit_run(t, i + 1) ELSE i

RECURSIVE decimal_value(_, _)
decimal_value(ds, acc) ==
    IF ds = <<>> THEN acc
    ELSE decimal_value(Tail(ds), acc * 10 + (Head(ds) - ZERO))

RECURSIVE normalize(_, _)
normalize(m, e) ==
    IF m = 0 THEN <<0, 0>>
    ELSE IF m % 10 = 0 THEN normalize(m \div 10, e + 1)
    ELSE <<m, e>>

F64Err == [ok |-> FALSE, val |-> <<0, 0>>]

F64Ok(neg, v) == [ok |-> TRUE, val |-> IF neg THEN <<0 - v[1], v[2]>> ELSE v]

(* The exponent digits are t[e0 .. e1 - 1]; m is the digits of the         *)
(* mantissa read as an integer, nfrac how many follow the point.           *)
f64_exponent(t, neg, m, nfrac, eneg, e0, e1) ==
    IF e1 = e0 THEN F64Err
    ELSE IF e1 <= Len(t) THEN F64Err
    ELSE IF eneg
    THEN F64Ok(neg, normalize(m, 0 - decimal_value(SubSeq(t, e0, e1 - 1), 0) - nfrac))
    ELSE F64Ok(neg, normalize(m, decimal_value(SubSeq(t, e0, e1 - 1), 0) - nfrac))

f64_exponent_sign(t, neg, m, nfrac, e) ==
    IF e <= Len(t) /\ t[e] \in {PLUS, MINUS}
    THEN f64_exponent(t, neg, m, nfrac, t[e] = MINUS, e + 1, digit_run(t, e + 1))
    ELSE f64_exponent(t, neg, m, nfrac, FALSE, e, digit_run(t, e))

(* The integer digits are t[i0 .. i1 - 1], the fraction digits             *)
(* t[f0 .. f1 - 1].                                                        *)
f64_mantissa(t, neg, i0, i1, f0, f1) ==
    IF (i1 - i0) + (f1 - f0) = 0 THEN F64Err
    ELSE IF f1 <= Len(t) /\ t[f1] \in {LOWER_E, UPPER_E}
    THEN f64_exponent_sign(t, neg,
             decimal_value(SubSeq(t, i0, i1 - 1) \o SubSeq(t, f0, f1 - 1), 0),
             f1 - f0, f1 + 1)
    ELSE IF f1 <= Len(t) THEN F64Err
    ELSE F64Ok(neg,
             normalize(decimal_value(SubSeq(t, i0, i1 - 1) \o SubSeq(t, f0, f1 - 1), 0),
                       0 - (f1 - f0)))

f64_point(t, neg, i0, i1) ==
    IF i1 <= Len(t) /\ t[i1] = DOT
    THEN f64_mantissa(t, neg, i0, i1, i1 + 1, digit_run(t, i1 + 1))
    ELSE f64_mantissa(t, neg, i0, i1, i1, i1)

(* f64::from_str on text without inf/nan letters:                          *)
(*   Sign? (Digit+ | Digit+ '.' Digit* | Digit* '.' Digit+) Exp?           *)
(*   Exp ::= ('e' | 'E') Sign? Digit+                                      *)
parse_f64(t) ==
    IF t = <<>> THEN F64Err
    ELSE IF t[1] \in {PLUS, MINUS} THEN f64_point(t, t[1] = MINUS, 2, digit_run(t, 2))
    ELSE f64_point(t, FALSE, 1, digit_run(t, 1))

number_result(r) == [panic |-> ~r.ok, res |-> Ok(JsonNumber(r.val))]

(* JsonParser::number: unwrap() aborts on Err. *)
parse_number(s) == number_result(parse_f64(s))

----------------------------------------------------------------------------
(* Source texts: concatenations of at most n pieces drawn from a set of    *)
(* byte strings.  Every piece is whole characters, so the text is UTF-8.   *)

RECURSIVE Flatten(_)
Flatten(ps) == IF ps = <<>> THEN <<>> ELSE Head(ps) \o Flatten(Tail(ps))

Texts(pieces, n) ==
    {Flatten(ps) : ps \in UNION {[1..k -> pieces] : k \in 0..n}}

E_ACUTE == <<195, 169>>

MaxTokPieces == 4

TokPieces ==
    {<<SPACE>>, <<NEWLINE>>, <<QUOTE>>, <<BACKSLASH>>, <<ZERO>>, <<ONE>>,
     <<MINUS>>, <<DOT>>, <<LOWER_E>>, <<PLUS>>, <<LBRACKET>>,
     <<116, 114, 117>>, E_ACUTE}

----------------------------------------------------------------------------
(* The tokenizer used alone: a caller that keeps calling next().           *)

NoCall ==
    [type |-> "NoCall", line |-> 0, index |-> 0, text |-> <<>>, message |-> ""]

Aborted ==
    [type |-> "Panic", line |-> 0, index |-> 0, text |-> <<>>, message |-> ""]

NoRet == [ok |-> FALSE, node |-> <<"Null">>, message |-> "(none)", token |-> NoToken]

Pending == <<"Pending">>

NoDoc == [tree |-> <<"none">>, ws |-> <<>>]

InitTok ==
    /\ src \in Texts(TokPieces, MaxTokPieces)
    /\ tokenizer = NewTokenizer
    /\ token = NoCall
    /\ buffer = <<>>
    /\ stack = <<>>
    /\ ret = NoRet
    /\ result = Pending
    /\ consumed = <<>>
    /\ doc = NoDoc

next_called(n) ==
    /\ tokenizer' = n.tz
    /\ token' = IF n.panic THEN Aborted ELSE n.tok

TokNext ==
    /\ token # Aborted
    /\ next_called(TokenizerNext(src, tokenizer))
    /\ UNCHANGED <<src, buffer, stack, ret, result, consumed, doc>>

NextTok == TokNext

SpecTok == InitTok /\ [][NextTok]_vars

----------------------------------------------------------------------------
(* JsonParser.  A frame is one activation of parse, value, array or        *)
(* object; pc is where it resumes.  value() ends in a tail call to array() *)
(* or object(), which takes over its frame.                                *)

Frame(fn, pc) == [fn |-> fn, pc |-> pc, arr |-> <<>>, obj |-> <<>>, key |-> <<>>]

Top == stack[Len(stack)]

Below == SubSeq(stack, 1, Len(stack) - 1)

Parser == [tz |-> tokenizer, buf |-> buffer, cons |-> consumed, tok |-> token,
           panic |-> FALSE]

advance_next(p, n) ==
    [tz |-> n.tz, buf |-> p.buf,
     cons |-> IF n.panic \/ n.tok = NoToken THEN p.cons ELSE Append(p.cons, n.tok),
     tok |-> n.tok, panic |-> n.panic]

(* an advance that goes to the tokenizer whatever the buffer holds *)
advance_unbuffered(p) == advance_next(p, TokenizerNext(src, p.tz))

(* JsonParser::advance *)
advance(p) ==
    IF p.buf # <<>>
    THEN [tz |-> p.tz, buf |-> Tail(p.buf), cons |-> Append(p.cons, Head(p.buf)),
          tok |-> Head(p.buf), panic |-> FALSE]
    ELSE advance_next(p, TokenizerNext(src, p.tz))

peek_next(p, n) ==
    [tz |-> n.tz,
     buf |-> IF n.panic \/ n.tok = NoToken THEN p.buf ELSE Append(p.buf, n.tok),
     cons |-> p.cons, tok |-> n.tok, panic |-> n.panic]

(* JsonParser::peek *)
peek(p) == peek_next(p, TokenizerNext(src, p.tz))

(* insert that keeps the entry a key already has *)
insert_keeping(obj, key, value) ==
    [k \in (DOMAIN obj) \cup {key} |-> IF k \in DOMAIN obj THEN obj[k] ELSE value]

(* HashMap::insert *)
insert(obj, key, value) ==
    [k \in (DOMAIN obj) \cup {key} |-> IF k = key THEN value ELSE obj[k]]

(* The effect of one step: the parser's fields after it, then either the   *)
(* frames left with the Result handed down, or an abort.                   *)
Step(p, stk, r) ==
    /\ tokenizer' = p.tz
    /\ buffer' = p.buf
    /\ consumed' = p.cons
    /\ token' = p.tok
    /\ stack' = stk
    /\ ret' = r
    /\ result' = result
    /\ UNCHANGED <<src, doc>>

Abort(p, why) ==
    /\ tokenizer' = p.tz
    /\ buffer' = p.buf
    /\ consumed' = p.cons
    /\ token' = p.tok
    /\ stack' = <<>>
    /\ ret' = NoRet
    /\ result' = <<"Panic", why>>
    /\ UNCHANGED <<src, doc>>

Return(p, r) == Step(p, Below, r)

Goto(p, frame) == Step(p, Append(Below, frame), NoRet)

Call(p, frame) == Step(p, Append(Append(Below, frame), Frame("value", "start")), NoRet)

(* parse() up to its call of value() *)
ParseCall ==
    /\ stack = <<>>
    /\ result = Pending
    /\ Step(Parser, <<Frame("parse", "value"), Frame("value", "start")>>, NoRet)

(* parse() from the return of value(): the formatted error text is kept as *)
(* the pieces format! joins.                                               *)
ParseRet ==
    /\ stack # <<>>
    /\ Top.fn = "parse"
    /\ ret # NoRet
    /\ result' =
         IF ret.ok THEN <<"Ok", ret.node>>
         ELSE IF ret.token # NoToken
         THEN <<"Err", <<"error: ", ret.message, ", at index: ", ret.token.index,
                         ", line: ", ret.token.line>> >>
         ELSE <<"Err", <<"error: ", ret.message>> >>
    /\ stack' = <<>>
    /\ ret' = NoRet
    /\ UNCHANGED <<src, tokenizer, token, buffer, consumed, doc>>

(* a value() that refuses a number followed by another token *)
value_number_alone(p, n) ==
    IF n.panic THEN Abort(p, "unwrap")
    ELSE IF TokenizerNext(src, p.tz).tok # NoToken
    THEN Return(p, Err("trailing", NoToken))
    ELSE Return(p, n.res)

value_number(p, n) ==
    IF n.panic THEN Abort(p, "unwrap") ELSE Return(p, n.res)

value_string(p, s) ==
    IF s.panic THEN Abort(p, "unreachable") ELSE Return(p, s.res)

(* value() from the return of advance() *)
value_token(p) ==
    IF p.panic THEN Abort(p, "slice")
    ELSE CASE p.tok.type = "Number" -> value_number(p, parse_number(p.tok.text))
           [] p.tok.type = "String" -> value_string(p, parse_string(p.tok.text))
           [] p.tok.type = "True" -> Return(p, Ok(JsonBool(TRUE)))
           [] p.tok.type = "False" -> Return(p, Ok(JsonBool(FALSE)))
           [] p.tok.type = "Null" -> Return(p, Ok(JsonNull))
           [] p.tok.type = "LeftSquareBracket" -> Goto(p, Frame("array", "loop"))
           [] p.tok.type = "LeftCurlyBracket" -> Goto(p, Frame("object", "loop"))
           [] p.tok.type = "RightSquareBracket" ->
                Return(p, Err("Unexpected ]", p.tok))
           [] p.tok.type = "RightCurlyBracket" ->
                Return(p, Err("Unexpected [", p.tok))
           [] p.tok.type = "Comma" -> Return(p, Err("Unexpected comma", p.tok))
           [] p.tok.type = "Colon" -> Return(p, Err("Unexpected colon", p.tok))
           [] p.tok.type = "Error" -> Return(p, Err(p.tok.message, p.tok))
           [] OTHER -> Return(p, Err("eof", NoToken))

Value ==
    /\ stack # <<>>
    /\ Top.fn = "value"
    /\ value_token(advance(Parser))

(* array(): the ']' that peek() showed is taken by advance() *)
array_close(p) ==
    IF p.panic THEN Abort(p, "slice") ELSE Return(p, Ok(JsonArray(Top.arr)))

(* array() from the return of peek() *)
array_peeked(p) ==
    IF p.panic THEN Abort(p, "slice")
    ELSE IF p.tok = NoToken THEN Return(p, Err("eof", NoToken))
    ELSE IF p.tok.type = "RightSquareBracket" THEN array_close(advance(p))
    ELSE Call(p, [Top EXCEPT !.pc = "element"])

(* array() from the top of its loop to the call of value() or a return *)
ArrayLoop ==
    /\ stack # <<>>
    /\ Top.fn = "array"
    /\ Top.pc = "loop"
    /\ array_peeked(peek(Parser))

(* array_next closing the array without the element just pushed *)
array_next_unpushed(p, arr) ==
    IF p.panic THEN Abort(p, "slice")
    ELSE IF p.tok = NoToken THEN Return(p, Err("unexpected eof", NoToken))
    ELSE IF p.tok.type = "RightSquareBracket" THEN Return(p, Ok(JsonArray(Top.arr)))
    ELSE IF p.tok.type = "Comma"
    THEN Goto(p, [Top EXCEPT !.pc = "loop", !.arr = arr])
    ELSE Abort(p, "todo")

(* array() after the push of an element, from the return of advance() *)
array_next(p, arr) ==
    IF p.panic THEN Abort(p, "slice")
    ELSE IF p.tok = NoToken THEN Return(p, Err("unexpected eof", NoToken))
    ELSE IF p.tok.type = "RightSquareBracket" THEN Return(p, Ok(JsonArray(arr)))
    ELSE IF p.tok.type = "Comma"
    THEN Goto(p, [Top EXCEPT !.pc = "loop", !.arr = arr])
    ELSE Abort(p, "todo")

(* array() from the return of value() to the next turn of the loop *)
ArrayElement ==
    /\ stack # <<>>
    /\ Top.fn = "array"
    /\ Top.pc = "element"
    /\ ret # NoRet
    /\ IF ~ret.ok THEN Return(Parser, ret)
       ELSE array_next(advance(Parser), Append(Top.arr, ret.node))

(* object() after the key, from the return of advance() *)
object_colon(p, key) ==
    IF p.panic THEN Abort(p, "slice")
    ELSE IF p.tok = NoToken THEN Return(p, Err("expect :", NoToken))
    ELSE IF p.tok.type # "Colon" THEN Return(p, Err("expect :", p.tok))
    ELSE Call(p, [Top EXCEPT !.pc = "value", !.key = key])

(* object(): p.tok is the String token of the key, k what escape() made of it *)
object_key(p, k) ==
    IF k.panic THEN Abort(p, "unreachable")
    ELSE IF ~k.ok THEN Return(p, Err("invalid string", p.tok))
    ELSE object_colon(advance(p), k.val)

(* object() from the return of the first advance() of a turn *)
object_token(p) ==
    IF p.panic THEN Abort(p, "slice")
    ELSE IF p.tok = NoToken THEN Return(p, Err("eof", NoToken))
    ELSE IF p.tok.type = "RightCurlyBracket" THEN Return(p, Ok(JsonObject(Top.obj)))
    ELSE IF p.tok.type # "String"
    THEN Return(p, Err("object key is not string", p.tok))
    ELSE object_key(p, escape(p.tok.text))

(* object() from the top of its loop to the call of value() or a return *)
ObjectLoop ==
    /\ stack # <<>>
    /\ Top.fn = "object"
    /\ Top.pc = "loop"
    /\ object_token(advance(Parser))

(* object() after the insert, from the return of advance() *)
object_next(p, obj) ==
    IF p.panic THEN Abort(p, "slice")
    ELSE IF p.tok = NoToken THEN Return(p, Err("unexpected eof", NoToken))
    ELSE IF p.tok.type = "RightCurlyBracket" THEN Return(p, Ok(JsonObject(obj)))
    ELSE IF p.tok.type = "Comma"
    THEN Goto(p, [Top EXCEPT !.pc = "loop", !.obj = obj])
    ELSE Return(p, Err("expected comma or object close", NoToken))

(* object() from the return of value() to the next turn of the loop *)
ObjectValue ==
    /\ stack # <<>>
    /\ Top.fn = "object"
    /\ Top.pc = "value"
    /\ ret # NoRet
    /\ IF ~ret.ok THEN Return(Parser, ret)
       ELSE object_next(advance(Parser), insert(Top.obj, Top.key, ret.node))

Next ==
    \/ ParseCall
    \/ Value
    \/ ArrayLoop
    \/ ArrayElement
    \/ ObjectLoop
    \/ ObjectValue
    \/ ParseRet

----------------------------------------------------------------------------
(* parse on arbitrary text.                                                *)

MaxPieces == 4

MaxSpaces == 3

Pieces ==
    {<<NEWLINE>>, <<LBRACKET>>, <<RBRACKET>>, <<LBRACE>>, <<RBRACE>>,
     <<COMMA>>, <<COLON>>, <<ONE>>, <<MINUS>>, <<QUOTE, 97, QUOTE>>,
     <<QUOTE, BACKSLASH, LOWER_U, ONE, QUOTE>>}

Spaces == {<<SPACE>>, <<TAB>>, <<CR>>, <<NEWLINE>>}

Created ==
    /\ tokenizer = NewTokenizer
    /\ token = NoCall
    /\ buffer = <<>>
    /\ stack = <<>>
    /\ ret = NoRet
    /\ result = Pending
    /\ consumed = <<>>

(* The bytes of string literals, well formed or not. *)
StringPieces == {<<QUOTE>>, <<BACKSLASH>>, <<ONE>>, <<LOWER_N>>}

Init ==
    /\ \E family \in {"blank", "tokens", "string"} :
          src \in CASE family = "blank" -> Texts(Spaces, MaxSpaces)
                    [] family = "tokens" -> Texts(Pieces, MaxPieces)
                    [] OTHER -> Texts(StringPieces, MaxPieces)
    /\ doc = NoDoc
    /\ Created

Spec == Init /\ [][Next]_vars

----------------------------------------------------------------------------
(* parse on serialized documents.  A document is a syntax tree: a leaf     *)
(* names one of the leaf texts below, an array holds documents, an object  *)
(* holds members <<key, document>> in source order, the key naming one of  *)
(* the key texts.  Each text is listed with the JSON value it denotes;     *)
(* plain is FALSE for a string written with \b or with a \u escape of a    *)
(* surrogate.                                                              *)

MaxNodes == 3

LeafForms ==
    << [text |-> KwNull, node |-> JsonNull, plain |-> TRUE],
       [text |-> KwTrue, node |-> JsonBool(TRUE), plain |-> TRUE],
       [text |-> KwFalse, node |-> JsonBool(FALSE), plain |-> TRUE],
       \* -10.5E+1
       [text |-> <<45, 49, 48, 46, 53, 69, 43, 49>>, node |-> JsonNumber(<<-105, 0>>),
        plain |-> TRUE],
       \* "\"\\\/\n\r\t\f\u00e9\u263A" followed by a raw e-acute
       [text |-> <<34, 92, 34, 92, 92, 92, 47, 92, 110, 92, 114, 92, 116, 92, 102,
                   92, 117, 48, 48, 101, 57, 92, 117, 50, 54, 51, 65, 195, 169, 34>>,
        node |-> JsonString(<<34, 92, 47, 10, 13, 9, 12, 233, 9786, 233>>),
        plain |-> TRUE],
       \* "😀": the surrogate pair of U+1F600
       [text |-> <<34, 92, 117, 100, 56, 51, 100, 92, 117, 100, 101, 48, 48, 34>>,
        node |-> JsonString(<<128512>>), plain |-> FALSE],
       \* "a\b": the letter a, then U+0008
       [text |-> <<34, 97, 92, 98, 34>>, node |-> JsonString(<<97, 8>>),
        plain |-> FALSE] >>

KeyForms ==
    << \* "a"
       [text |-> <<34, 97, 34>>, key |-> <<97>>],
       \* "\u0061"
       [text |-> <<34, 92, 117, 48, 48, 54, 49, 34>>, key |-> <<97>>],
       \* ""
       [text |-> <<34, 34>>, key |-> <<>>] >>

WsForms == {<<>>, <<SPACE, NEWLINE, TAB, CR>>}

RECURSIVE DocsOfSize(_)
RECURSIVE Forests(_)
RECURSIVE MemberLists(_)
DocsOfSize(n) ==
    IF n = 1
    THEN {<<"leaf", i>> : i \in 1..Len(LeafForms)} \cup {<<"array", <<>> >>, <<"object", <<>> >>}
    ELSE {<<"array", f>> : f \in Forests(n - 1)}
         \cup {<<"object", m>> : m \in MemberLists(n - 1)}

Forests(n) ==
    IF n = 0 THEN {<<>>}
    ELSE UNION {{<<d>> \o f : d \in DocsOfSize(k), f \in Forests(n - k)} : k \in 1..n}

MemberLists(n) ==
    IF n = 0 THEN {<<>>}
    ELSE UNION {{<< <<key, d>> >> \o m :
                    key \in 1..Len(KeyForms), d \in DocsOfSize(k),
                    m \in MemberLists(n - k)} : k \in 1..n}

Docs == UNION {DocsOfSize(n) : n \in 1..MaxNodes}

RECURSIVE Serialize(_, _)
RECURSIVE SerializeElements(_, _)
RECURSIVE SerializeMembers(_, _)
Serialize(d, ws) ==
    CASE d[1] = "leaf" -> ws \o LeafForms[d[2]].text
      [] d[1] = "array" ->
           ws \o <<LBRACKET>> \o SerializeElements(d[2], ws) \o ws \o <<RBRACKET>>
      [] OTHER ->
           ws \o <<LBRACE>> \o SerializeMembers(d[2], ws) \o ws \o <<RBRACE>>

SerializeElements(f, ws) ==
    IF f = <<>> THEN <<>>
    ELSE IF Len(f) = 1 THEN Serialize(f[1], ws)
    ELSE Serialize(f[1], ws) \o ws \o <<COMMA>> \o SerializeElements(Tail(f), ws)

SerializeMembers(m, ws) ==
    IF m = <<>> THEN <<>>
    ELSE ws \o KeyForms[m[1][1]].text \o ws \o <<COLON>> \o Serialize(m[1][2], ws)
         \o (IF Len(m) = 1 THEN <<>>
             ELSE ws \o <<COMMA>> \o SerializeMembers(Tail(m), ws))

(* The last member of m whose key decodes to k. *)
LastMember(m, k) ==
    m[CHOOSE i \in 1..Len(m) :
        /\ KeyForms[m[i][1]].key = k
        /\ \A j \in (i + 1)..Len(m) : KeyForms[m[j][1]].key # k]

(* The value a document denotes. *)
RECURSIVE Denote(_)
Denote(d) ==
    CASE d[1] = "leaf" -> LeafForms[d[2]].node
      [] d[1] = "array" -> JsonArray([i \in 1..Len(d[2]) |-> Denote(d[2][i])])
      [] OTHER ->
           JsonObject([k \in {KeyForms[d[2][i][1]].key : i \in 1..Len(d[2])} |->
                          Denote(LastMember(d[2], k)[2])])

InitDoc ==
    /\ doc \in {[tree |-> d, ws |-> w] : d \in Docs, w \in WsForms}
    /\ src = Serialize(doc.tree, doc.ws) \o doc.ws
    /\ Created

SpecDoc == InitDoc /\ [][Next]_vars

----------------------------------------------------------------------------
(* escape called alone on the raw text of a String token: an opening       *)
(* quote, then either a run of the pieces below (each listed with what it  *)
(* appends; pop is TRUE for \b) or \u and four characters, then the        *)
(* closing quote.                                                          *)

MaxEscapes == 3

EscapeForms ==
    << [text |-> <<97>>, c |-> 97, pop |-> FALSE],
       [text |-> E_ACUTE, c |-> 233, pop |-> FALSE],
       [text |-> <<BACKSLASH, QUOTE>>, c |-> 34, pop |-> FALSE],
       [text |-> <<BACKSLASH, BACKSLASH>>, c |-> 92, pop |-> FALSE],
       [text |-> <<BACKSLASH, SLASH>>, c |-> 47, pop |-> FALSE],
       [text |-> <<BACKSLASH, LOWER_N>>, c |-> 10, pop |-> FALSE],
       [text |-> <<BACKSLASH, LOWER_R>>, c |-> 13, pop |-> FALSE],
       [text |-> <<BACKSLASH, LOWER_T>>, c |-> 9, pop |-> FALSE],
       [text |-> <<BACKSLASH, LOWER_F>>, c |-> 12, pop |-> FALSE],
       [text |-> <<BACKSLASH, LOWER_B>>, c |-> 0, pop |-> TRUE],
       \* A and €
       [text |-> <<BACKSLASH, LOWER_U, 48, 48, 52, 49>>, c |-> 65, pop |-> FALSE],
       [text |-> <<BACKSLASH, LOWER_U, 50, 48, 97, 67>>, c |-> 8364, pop |-> FALSE] >>

(* 0 1 4 8 D d F f + - g and a space *)
HexTrials == {48, 49, 52, 56, 68, 100, 70, 102, PLUS, MINUS, 103, SPACE}

RECURSIVE EscapeText(_)
EscapeText(fs) ==
    IF fs = <<>> THEN <<>> ELSE EscapeForms[Head(fs)].text \o EscapeText(Tail(fs))

InitEscape ==
    /\ \E plain \in BOOLEAN :
          IF plain
          THEN \E n \in 0..MaxEscapes : \E fs \in [1..n -> 1..Len(EscapeForms)] :
                  /\ doc = [tree |-> <<"string", fs>>, ws |-> <<>>]
                  /\ src = <<QUOTE>> \o EscapeText(fs) \o <<QUOTE>>
          ELSE \E hexs \in [1..4 -> HexTrials] :
                  /\ doc = [tree |-> <<"unicode", hexs>>, ws |-> <<>>]
                  /\ src = <<QUOTE, BACKSLASH, LOWER_U>> \o hexs \o <<QUOTE>>
    /\ Created

escape_called(r) ==
    result' = IF r.panic THEN <<"Panic", r.message>>
              ELSE IF r.ok THEN <<"Ok", r.val>>
              ELSE <<"Err", r.message>>

EscapeCall ==
    /\ result = Pending
    /\ escape_called(escape(src))
    /\ UNCHANGED <<src, tokenizer, token, buffer, stack, ret, consumed, doc>>

NextEscape == EscapeCall

SpecEscape == InitEscape /\ [][NextEscape]_vars

----------------------------------------------------------------------------
(* parse called twice: on a text, then on that text with more text after   *)
(* it.  doc.tree is <<"append", base, more, first>>, first being what the  *)
(* first call returned.                                                    *)

MaxBase == 3

MaxMore == 1

BasePieces ==
    {<<ONE>>, <<LBRACKET>>, <<RBRACKET>>, <<LBRACE, QUOTE, 97, QUOTE, COLON>>,
     <<RBRACE>>, KwTrue}

MorePieces ==
    {<<SPACE, ONE>>, <<ONE>>, <<LOWER_E>>, <<RBRACKET>>, <<SPACE, 120>>}

InitAppend ==
    /\ \E base \in Texts(BasePieces, MaxBase), more \in Texts(MorePieces, MaxMore) :
          /\ doc = [tree |-> <<"append", base, more, Pending>>, ws |-> <<>>]
          /\ src = base
    /\ Created

(* The first call has returned; parse is called on the longer text. *)
ParseAgain ==
    /\ result # Pending
    /\ doc.tree[4] = Pending
    /\ doc' = [doc EXCEPT !.tree = <<"append", doc.tree[2], doc.tree[3], result>>]
    /\ src' = doc.tree[2] \o doc.tree[3]
    /\ tokenizer' = NewTokenizer
    /\ token' = NoCall
    /\ buffer' = <<>>
    /\ stack' = <<>>
    /\ ret' = NoRet
    /\ result' = Pending
    /\ consumed' = <<>>

NextAppend == Next \/ ParseAgain

SpecAppend == InitAppend /\ [][NextAppend]_vars

----------------------------------------------------------------------------
(* The claims.                                                             *)

Returned == result # Pending

(* Some step of parse is due: the guards of the actions of Next. *)
CanStep ==
    \/ stack = <<>> /\ result = Pending
    \/ /\ stack # <<>>
       /\ \/ Top.fn = "value"
          \/ Top.fn \in {"array", "object"} /\ Top.pc = "loop"
          \/ ret # NoRet

RECURSIVE Plain(_)
Plain(d) ==
    CASE d[1] = "leaf" -> LeafForms[d[2]].plain
      [] d[1] = "array" -> \A i \in 1..Len(d[2]) : Plain(d[2][i])
      [] OTHER -> \A i \in 1..Len(d[2]) : Plain(d[2][i][2])

(* C1, as stated: for every well-formed JSON document parse returns Ok     *)
(* with the tree the document denotes: leaves as written, array elements   *)
(* in source order, object members under their decoded keys, at every      *)
(* level of nesting.                                                       *)
C1_WellFormedParses ==
    IF Returned THEN result = <<"Ok", Denote(doc.tree)>> ELSE CanStep

(* C1, amended: the same for every well-formed document none of whose      *)
(* strings is written with a \b escape or a \u escape of a surrogate.      *)
C1_PlainWellFormedParses ==
    Plain(doc.tree) =>
        IF Returned THEN result = <<"Ok", Denote(doc.tree)>> ELSE CanStep

(* An object whose one member holds a one-element array, written with      *)
(* white space between the tokens, has been parsed.                        *)
C1_Witness ==
    /\ result[1] = "Ok"
    /\ doc.ws # <<>>
    /\ doc.tree[1] = "object"
    /\ Len(doc.tree[2]) = 1
    /\ doc.tree[2][1][2][1] = "array"
    /\ Len(doc.tree[2][1][2][2]) = 1
    /\ Plain(doc.tree)

Blank(s) == \A i \in 1..Len(s) : s[i] \in {SPACE, TAB, CR, NEWLINE}

(* C2: on a text that is empty or only spaces, tabs, carriage returns and  *)
(* newlines, parse returns the positionless Err "error: eof" and does not  *)
(* abort.                                                                  *)
C2_BlankIsEof ==
    Blank(src) =>
        IF Returned THEN result = <<"Err", <<"error: ", "eof">> >> ELSE CanStep

C2_Witness ==
    /\ result = <<"Err", <<"error: ", "eof">> >>
    /\ \E i, j \in 1..Len(src) : src[i] = TAB /\ src[j] = NEWLINE

(* array() has pushed an element and the token it reads next is neither    *)
(* ',' nor ']'.                                                            *)
ArrayBadSeparator ==
    /\ stack # <<>>
    /\ Top.fn = "array"
    /\ Top.pc = "element"
    /\ ret # NoRet
    /\ ret.ok
    /\ IsToken(token')
    /\ token'.type \notin {"Comma", "RightSquareBracket"}

(* C3: in the array production, when the token after an element is neither *)
(* ',' nor ']', an error Result goes back to the caller: no value, no      *)
(* abort.                                                                  *)
C3_ArraySeparatorError ==
    [][ArrayBadSeparator => (result' = Pending /\ ret' # NoRet /\ ~ret'.ok)]_vars

(* C4: an Err that parse returns after reading a token carries that        *)
(* token's index and line; it is positionless exactly when the last read   *)
(* found the token stream exhausted.                                       *)
C4_ErrorPosition ==
    (Returned /\ result[1] = "Err") =>
        IF IsToken(token)
        THEN /\ Len(result[2]) = 6
             /\ result[2][4] = token.index
             /\ result[2][6] = token.line
        ELSE Len(result[2]) = 2

(* C5: value() turns every Number token it reads into a Result, a number   *)
(* or an error; it does not abort.                                         *)
C5_NumberNeverAborts ==
    [][(stack # <<>> /\ Top.fn = "value" /\ token'.type = "Number")
          => (result' = Pending /\ ret' # NoRet)]_vars

MemberKey(m) == KeyForms[m[1]].key

(* C6: of the members of an object whose keys are equal once decoded, the  *)
(* Object holds one entry, with the value of the last of them.             *)
C6_LastKeyWins ==
    (Returned /\ doc.tree[1] = "object" /\ Plain(doc.tree)) =>
        /\ result[1] = "Ok"
        /\ result[2][1] = "Object"
        /\ DOMAIN result[2][2] = {MemberKey(doc.tree[2][i]) : i \in 1..Len(doc.tree[2])}
        /\ \A i \in 1..Len(doc.tree[2]) :
              (\A j \in (i + 1)..Len(doc.tree[2]) :
                  MemberKey(doc.tree[2][j]) # MemberKey(doc.tree[2][i]))
              => result[2][2][MemberKey(doc.tree[2][i])] = Denote(doc.tree[2][i][2])

(* {"a": null, "a": true} has been parsed. *)
C6_Witness ==
    /\ doc.tree = <<"object", << <<1, <<"leaf", 1>> >>, <<2, <<"leaf", 2>> >> >> >>
    /\ result = <<"Ok", JsonObject([k \in {<<97>>} |-> JsonBool(TRUE)])>>

RECURSIVE Decoded(_, _)
Decoded(fs, out) ==
    IF fs = <<>> THEN out
    ELSE IF EscapeForms[Head(fs)].pop
    THEN Decoded(Tail(fs), IF out = <<>> THEN <<>> ELSE SubSeq(out, 1, Len(out) - 1))
    ELSE Decoded(Tail(fs), Append(out, EscapeForms[Head(fs)].c))

(* C7: escape maps plain characters and the recognized escapes to the      *)
(* expected characters, \b taking away the character before it (none when  *)
(* there is none).                                                         *)
C7_EscapesDecode ==
    (Returned /\ doc.tree[1] = "string") =>
        result = <<"Ok", Decoded(doc.tree[2], <<>>)>>

(* "a\bA" has been decoded to A. *)
C7_Witness ==
    /\ doc.tree = <<"string", <<1, 10, 11>> >>
    /\ result = <<"Ok", <<65>> >>

IsHexDigit(c) == c \in (48..57) \cup (65..70) \cup (97..102)

HexDigit(c) == IF c <= 57 THEN c - 48 ELSE IF c <= 70 THEN c - 55 ELSE c - 87

HexValue(h) ==
    HexDigit(h[1]) * 4096 + HexDigit(h[2]) * 256 + HexDigit(h[3]) * 16 + HexDigit(h[4])

(* C8: \u succeeds exactly when the four characters after it are all       *)
(* hexadecimal digits naming a scalar value, and fails with               *)
(* "parse \u error" otherwise.                                             *)
C8_UnicodeNeedsFourHex ==
    (Returned /\ doc.tree[1] = "unicode") =>
        IF /\ \A i \in 1..4 : IsHexDigit(doc.tree[2][i])
           /\ HexValue(doc.tree[2]) \notin 55296..57343
        THEN result = <<"Ok", <<HexValue(doc.tree[2])>> >>
        ELSE result = <<"Err", "parse \\u error">>

(* The offset of the first byte at or after c that is no white space. *)
FirstAfterSpaces(s, c) ==
    CHOOSE i \in c..(Len(s) - 1) :
        /\ s[i + 1] \notin {SPACE, TAB, CR, NEWLINE}
        /\ \A j \in c..(i - 1) : s[j + 1] \in {SPACE, TAB, CR, NEWLINE}

NewlinesBefore(s, i) == Cardinality({j \in 1..i : s[j] = NEWLINE})

(* C9: a token next() returns has as index the offset of its first         *)
(* character and as line 1 plus the number of newlines before that offset, *)
(* those inside earlier string tokens included.                            *)
C9_TokenPosition ==
    [][IsToken(token') =>
          /\ token'.index = FirstAfterSpaces(src, tokenizer.current)
          /\ token'.line = 1 + NewlinesBefore(src, token'.index)]_vars

(* C10: over successive next() calls the cursor never decreases, a call    *)
(* that returns a token moves it forward, every call returns, and once     *)
(* none is returned it is returned ever after.                             *)
C10_CursorAdvances ==
    [][/\ tokenizer'.current >= tokenizer.current
       /\ tokenizer'.current <= Len(src) + 1
       /\ (IsToken(token') => tokenizer'.current > tokenizer.current)
       /\ (token = NoToken => token' = NoToken)
       /\ token' # Aborted]_vars

HasNonSpace(s, c) == \E i \in c..(Len(s) - 1) : s[i + 1] \notin {SPACE, TAB, CR, NEWLINE}

(* In the string opened at offset o, the byte at offset i is the second    *)
(* byte of a backslash escape: the byte before it is a backslash inside    *)
(* the string that is not itself such a second byte.                       *)
RECURSIVE Escaped(_, _, _)
Escaped(s, o, i) == i > o + 1 /\ s[i] = BACKSLASH /\ ~Escaped(s, o, i - 1)

Closes(s, o, j) == s[j + 1] = QUOTE /\ ~Escaped(s, o, j)

ClosingQuote(s, o) ==
    CHOOSE j \in (o + 1)..(Len(s) - 1) :
        Closes(s, o, j) /\ \A k \in (o + 1)..(j - 1) : ~Closes(s, o, k)

StringAt(s, o, tok) ==
    IF \E j \in (o + 1)..(Len(s) - 1) : Closes(s, o, j)
    THEN /\ tok.type = "String"
         /\ tok.index = o
         /\ tok.text = SubSeq(s, o + 1, ClosingQuote(s, o) + 1)
    ELSE /\ tok.type = "Error"
         /\ tok.message = "unterminated string"
         /\ tok.index = o

(* C11: with the cursor at a quote, next() returns a String token from     *)
(* that quote through the first later quote that is not the second byte of *)
(* a backslash escape, or, when there is none, an Error token              *)
(* "unterminated string", in both cases with the opening quote's index.    *)
C11_StringToken ==
    [][(/\ HasNonSpace(src, tokenizer.current)
        /\ src[FirstAfterSpaces(src, tokenizer.current) + 1] = QUOTE)
          => StringAt(src, FirstAfterSpaces(src, tokenizer.current), token')]_vars

(* The text "\"" with an escaped quote inside has been returned whole as   *)
(* one String token.                                                       *)
C11_Witness ==
    /\ src = <<QUOTE, BACKSLASH, QUOTE, QUOTE>>
    /\ token.type = "String"
    /\ token.index = 0
    /\ token.text = <<QUOTE, BACKSLASH, QUOTE, QUOTE>>

(* The JSON number grammar: an optional '-'; '0' or digits not starting    *)
(* with '0'; optionally '.' and digits; optionally e or E, an optional     *)
(* sign and digits.                                                        *)
IsDigits(t) == t # <<>> /\ \A i \in 1..Len(t) : t[i] \in 48..57

IsInt(t) == t = <<ZERO>> \/ (IsDigits(t) /\ t[1] # ZERO)

IsFrac(t) == t = <<>> \/ (t[1] = DOT /\ IsDigits(Tail(t)))

IsExp(t) ==
    \/ t = <<>>
    \/ /\ t[1] \in {LOWER_E, UPPER_E}
       /\ \/ IsDigits(Tail(t))
          \/ Len(t) >= 2 /\ t[2] \in {PLUS, MINUS} /\ IsDigits(SubSeq(t, 3, Len(t)))

IsUnsignedNumber(t) ==
    \E i \in 1..Len(t) : \E j \in i..Len(t) :
        /\ IsInt(SubSeq(t, 1, i))
        /\ IsFrac(SubSeq(t, i + 1, j))
        /\ IsExp(SubSeq(t, j + 1, Len(t)))

IsJsonNumber(t) ==
    IsUnsignedNumber(IF t # <<>> /\ t[1] = MINUS THEN Tail(t) ELSE t)

(* The first offset from o on that is the end of the source, or holds      *)
(* white space or a structural character.                                  *)
Delimiters == {SPACE, TAB, CR, NEWLINE, LBRACE, RBRACE, LBRACKET, RBRACKET, COMMA, COLON}

DelimitedEnd(s, o) ==
    CHOOSE e \in o..Len(s) :
        /\ e = Len(s) \/ s[e + 1] \in Delimiters
        /\ \A k \in o..(e - 1) : s[k + 1] \notin Delimiters

NumberAt(s, o, tok) ==
    IsJsonNumber(SubSeq(s, o + 1, DelimitedEnd(s, o)))
        => /\ tok.type = "Number"
           /\ tok.index = o
           /\ tok.text = SubSeq(s, o + 1, DelimitedEnd(s, o))

(* C12: when the text at the cursor, after white space, is a well-formed   *)
(* JSON number followed by the end of the source, white space or a         *)
(* structural character, next() returns one Number token with exactly that *)
(* text and the offset of its first character as index.                    *)
C12_NumberToken ==
    [][HasNonSpace(src, tokenizer.current)
          => NumberAt(src, FirstAfterSpaces(src, tokenizer.current), token')]_vars

(* 1.0 before a '[' has been returned as one Number token. *)
C12_Witness ==
    /\ src = <<ONE, DOT, ZERO, LBRACKET>>
    /\ token.type = "Number"
    /\ token.index = 0
    /\ token.text = <<ONE, DOT, ZERO>>

EscapeLetters ==
    {QUOTE, BACKSLASH, SLASH, LOWER_N, LOWER_B, LOWER_F, LOWER_R, LOWER_T, LOWER_U}

(* Every backslash that opens an escape in the String token text t is      *)
(* followed by one of the nine escape letters.                             *)
ValidEscapes(t) ==
    \A i \in 1..(Len(t) - 2) :
        (t[i + 1] = BACKSLASH /\ ~Escaped(t, 0, i)) => t[i + 2] \in EscapeLetters

(* C13: every String token the parser got from the tokenizer has only the  *)
(* nine escapes in its text, and parse never reaches the escape decoder's  *)
(* branch for another character after a backslash.                         *)
C13_EscapesAreKnown ==
    /\ \A i \in 1..Len(consumed) :
          consumed[i].type = "String" => ValidEscapes(consumed[i].text)
    /\ result # <<"Panic", "unreachable">>

(* The tokens that successive next() calls on s return from tz on, up to   *)
(* the first none or abort.                                                *)
RECURSIVE TokenStream(_, _)
StreamFrom(s, n) ==
    IF n.panic \/ n.tok = NoToken THEN <<>> ELSE <<n.tok>> \o TokenStream(s, n.tz)

TokenStream(s, tz) == StreamFrom(s, TokenizerNext(s, tz))

IsPrefix(a, b) == Len(a) <= Len(b) /\ SubSeq(b, 1, Len(a)) = a

(* C14: the buffer holds at most one token, it is empty wherever peek is   *)
(* about to be called (the top of array's loop), and the tokens advance    *)
(* has handed out, followed by the buffered one, are the tokenizer's       *)
(* output from the start of the source, in order.                          *)
C14_OneTokenLookahead ==
    /\ Len(buffer) <= 1
    /\ (stack # <<>> /\ Top.fn = "array" /\ Top.pc = "loop") => buffer = <<>>
    /\ IsPrefix(consumed \o buffer, TokenStream(src, NewTokenizer))

(* In [1,1 the second element has been peeked and waits in the buffer      *)
(* after three tokens were handed out.                                     *)
C14_Witness ==
    /\ Len(buffer) = 1
    /\ buffer[1].type = "Number"
    /\ Len(consumed) = 3
    /\ consumed[3].type = "Comma"

(* The second call, on base followed by more, has returned after a first   *)
(* call that returned Ok.                                                  *)
SecondReturned == Returned /\ doc.tree[4] # Pending /\ doc.tree[4][1] = "Ok"

Detached(base, more) ==
    \/ more = <<>>
    \/ more[1] \in Delimiters
    \/ base[Len(base)] \notin 48..57

====
